---------------------------- MODULE Spec2Model ----------------------------
(***************************************************************************)
(* Model of the real-estate simulation engine (PropertySim) and of the     *)
(* down-payment sweep (AutoSim.down_payment_for_cashflow).                 *)
(*                                                                         *)
(* Numbers.  The program computes with Python floats: every *, / and **    *)
(* yields the representable value nearest to the exact result.  The model  *)
(* keeps that: a number is an integer count of 1/Q, and every product and  *)
(* quotient is rounded to the nearest such value (ties to even).  Sums and *)
(* differences of such values are exact.  amort_years, years, month        *)
(* indices and sample counts are plain integers, as in the program.        *)
(*                                                                         *)
(* Specifications.  Spec: one PropertySim instance, run() and kpis() called *)
(* on it.  SpecSweep: one call of the sweep, the progress callback absent   *)
(* or reading only.  SpecObserver: the same call with a callback that may   *)
(* also write into the row it is handed.  SpecDb: the sim_db store after    *)
(* init_db, under any sequence of its writing operations; a table is the    *)
(* set of its rows, timestamps and the KPI columns of a run are left out.   *)
(***************************************************************************)
EXTENDS Integers, Sequences, FiniteSets, TLC

\* ------------------------------------------------------------------ bounds
MaxYears == 2
MaxAmortYears == 2
MaxSims == 4
MaxCalls == 2
MaxId == 2

\* --------------------------------------------------------------- numbers
\* Resolution of the number representation: 1.0 is Q units.
Q == 10000

Abs(x) == IF x < 0 THEN -x ELSE x
Sgn(x) == IF x < 0 THEN -1 ELSE 1

\* round(a / b) for a >= 0, b > 0, ties to even
RoundDivNat(a, b) ==
    LET q == a \div b
        r == a % b
    IN  IF 2 * r > b \/ (2 * r = b /\ q % 2 = 1) THEN q + 1 ELSE q

\* round(a / b) for integers a and b # 0
RoundDiv(a, b) == Sgn(a) * Sgn(b) * RoundDivNat(Abs(a), Abs(b))

\* float product: round(a * b / Q), evaluated without leaving 32 bits
FMul(a, b) ==
    LET x == Abs(a)
        y == Abs(b)
        qa == x \div Q
        ra == x % Q
        qb == y \div Q
        rb == y % Q
        whole == qa * qb * Q + qa * rb + ra * qb + ((ra * rb) \div Q)
        rem == (ra * rb) % Q
        up == 2 * rem > Q \/ (2 * rem = Q /\ whole % 2 = 1)
    IN  Sgn(a) * Sgn(b) * (IF up THEN whole + 1 ELSE whole)

\* floor(r * scale / b) and the remainder left, for 0 <= r < b, scale a power of ten
RECURSIVE FracFloor(_, _, _)
FracFloor(r, b, scale) ==
    IF scale = 1 THEN 0
    ELSE ((r * 10) \div b) * (scale \div 10) + FracFloor((r * 10) % b, b, scale \div 10)

RECURSIVE FracRem(_, _, _)
FracRem(r, b, scale) ==
    IF scale = 1 THEN r ELSE FracRem((r * 10) % b, b, scale \div 10)

\* float quotient: round(a * Q / b) for b # 0, by long division
FDiv(a, b) ==
    LET x == Abs(a)
        y == Abs(b)
        whole == (x \div y) * Q + FracFloor(x % y, y, Q)
        rem == FracRem(x % y, y, Q)
        up == 2 * rem > y \/ (2 * rem = y /\ whole % 2 = 1)
    IN  Sgn(a) * Sgn(b) * (IF up THEN whole + 1 ELSE whole)

\* float power with an integer exponent, x ** n, by squaring
RECURSIVE FPow(_, _)
FPow(x, n) ==
    IF n = 0 THEN Q
    ELSE IF n < 0 THEN FDiv(Q, FPow(x, -n))
    ELSE IF n % 2 = 0 THEN CHOOSE v \in {FMul(h, h) : h \in {FPow(x, n \div 2)}} : TRUE
    ELSE CHOOSE v \in {FMul(h, x) : h \in {FPow(x, n - 1)}} : TRUE

\* Optional values: None is the empty tuple, a value v is <<v>>
None == <<>>
Some(v) == <<v>>

\* ------------------------------------------------------------ PropertySim
\* pct_to_dec: float(p) / 100.0
pct_to_dec(p) == RoundDiv(p, 100)

clamp_nonnegative(x) == IF x > 0 THEN x ELSE 0

\* The dataclass fields of PropertySim: the configuration the inputs vary
BaseConfig ==
    [ purchase_price |-> 1200 * Q,
      down_payment_percent |-> 20 * Q,
      annual_interest_percent |-> 6 * Q,
      amort_years |-> 1,
      rental_type |-> "long_term",
      monthly_rent |-> 60 * Q,
      rent_growth_percent_per_year |-> 2 * Q,
      vacancy_percent |-> 5 * Q,
      nightly_rate |-> 5 * Q,
      occupancy_percent |-> 65 * Q,
      cleaning_fee_per_stay |-> 2 * Q,
      avg_stay_length_nights |-> 3 * Q,
      platform_fee_percent |-> 15 * Q,
      tax_percent_of_price_per_year |-> 12 * (Q \div 10),
      insurance_percent_of_price_per_year |-> 6 * (Q \div 10),
      maintenance_percent_of_price_per_year |-> 1 * Q,
      other_costs_monthly |-> 0,
      years |-> 1,
      appreciation_percent_per_year |-> 3 * Q,
      closing_costs_percent_of_price |-> 2 * Q,
      start_date |-> [year |-> 2025, month |-> 1, day |-> 1] ]

closing_costs(c) == FMul(c.purchase_price, pct_to_dec(c.closing_costs_percent_of_price))
\* faulty variant of down_payment: the closing-costs percentage is taken
down_payment_ClosingPercent(c) ==
    FMul(c.purchase_price, pct_to_dec(c.closing_costs_percent_of_price))

down_payment(c) == FMul(c.purchase_price, pct_to_dec(c.down_payment_percent))
\* faulty variant of loan_amount: the down payment is added to the price
loan_amount_PlusDown(c) == clamp_nonnegative(c.purchase_price + down_payment(c))

loan_amount(c) == clamp_nonnegative(c.purchase_price - down_payment(c))
total_upfront(c) == down_payment(c) + closing_costs(c)
tax_yearly(c) == FMul(c.purchase_price, pct_to_dec(c.tax_percent_of_price_per_year))
insurance_yearly(c) == FMul(c.purchase_price, pct_to_dec(c.insurance_percent_of_price_per_year))
maintenance_yearly(c) == FMul(c.purchase_price, pct_to_dec(c.maintenance_percent_of_price_per_year))
monthly_rate(c) == RoundDiv(pct_to_dec(c.annual_interest_percent), 12)
total_months(c) == c.years * 12

\* mortgage_payment_monthly divides by n (r = 0) or by (1+r)**n - 1: the
\* division raises ZeroDivisionError when that divisor is 0
mortgage_payment_raises(c) ==
    LET r == monthly_rate(c)
        n == c.amort_years * 12
    IN  IF r = 0 THEN n = 0 ELSE FPow(Q + r, n) - Q = 0

\* mortgage_payment_monthly(balance=None): the PMT of the loan amount
mortgage_payment_monthly(c) ==
    LET L == loan_amount(c)
        r == monthly_rate(c)
        n == c.amort_years * 12
        P == FPow(Q + r, n)
    IN  IF r = 0 THEN RoundDiv(L, n)
        ELSE FDiv(FMul(L, FMul(r, P)), P - Q)

\* calculate_monthly_revenue raises ZeroDivisionError on a zero stay length
revenue_raises(c) == c.rental_type = "short_term" /\ c.avg_stay_length_nights = 0

\* faulty variant of calculate_monthly_revenue: a cleaning fee for every
\* occupied night instead of every stay
calculate_monthly_revenue_FeePerNight(c, base_rate) ==
    IF c.rental_type = "short_term"
    THEN LET occupied_days == FMul(30 * Q, pct_to_dec(c.occupancy_percent))
             gross_monthly == FMul(base_rate, occupied_days)
                              + FMul(c.cleaning_fee_per_stay, occupied_days)
         IN  FMul(gross_monthly, Q - pct_to_dec(c.platform_fee_percent))
    ELSE FMul(base_rate, Q - pct_to_dec(c.vacancy_percent))

calculate_monthly_revenue(c, base_rate) ==
    IF c.rental_type = "short_term"
    THEN LET occupied_days == FMul(30 * Q, pct_to_dec(c.occupancy_percent))
             num_stays == FDiv(occupied_days, c.avg_stay_length_nights)
             gross_monthly == FMul(base_rate, occupied_days)
                              + FMul(c.cleaning_fee_per_stay, num_stays)
         IN  FMul(gross_monthly, Q - pct_to_dec(c.platform_fee_percent))
    ELSE FMul(base_rate, Q - pct_to_dec(c.vacancy_percent))

\* initial_cash_on_cash_percent divides by total_upfront
initial_coc_raises(c) == revenue_raises(c) \/ total_upfront(c) = 0

initial_cash_on_cash_percent(c) ==
    LET eff_rent_year1 ==
            IF c.rental_type = "short_term"
            THEN calculate_monthly_revenue(c, c.nightly_rate) * 12
            ELSE calculate_monthly_revenue(c, c.monthly_rent) * 12
        expenses_year1 == tax_yearly(c) + insurance_yearly(c) + maintenance_yearly(c)
                          + c.other_costs_monthly * 12
        noi_year1 == eff_rent_year1 - expenses_year1
    IN  FDiv(noi_year1, total_upfront(c)) * 100

\* pd.Timestamp + pd.DateOffset(months=1): the next calendar month, the day
\* kept unless the month is shorter, then its last day
IsLeap(y) == (y % 4 = 0 /\ y % 100 # 0) \/ y % 400 = 0
DaysInMonth(y, mo) ==
    IF mo = 2 THEN (IF IsLeap(y) THEN 29 ELSE 28)
    ELSE IF mo \in {4, 6, 9, 11} THEN 30 ELSE 31
Min(a, b) == IF a < b THEN a ELSE b
AddMonth(d) ==
    LET y == IF d.month = 12 THEN d.year + 1 ELSE d.year
        mo == IF d.month = 12 THEN 1 ELSE d.month + 1
    IN  [year |-> y, month |-> mo, day |-> Min(d.day, DaysInMonth(y, mo))]

\* ------------------------------------------------------- PropertySim.run
\* run(), up to the loop: the locals of the call
RunLocals(c) ==
    [ current_price |-> c.purchase_price,
      balance |-> loan_amount(c),
      mmtg |-> mortgage_payment_monthly(c),
      date |-> c.start_date,
      monthly_tax |-> RoundDiv(tax_yearly(c), 12),
      monthly_ins |-> RoundDiv(insurance_yearly(c), 12),
      monthly_maint |-> RoundDiv(maintenance_yearly(c), 12),
      base_rate |-> IF c.rental_type = "short_term" THEN c.nightly_rate ELSE c.monthly_rent,
      cumulative_cf |-> 0,
      cumulative_principal |-> 0,
      m |-> 0,
      ts |-> <<>> ]

\* faulty variant of Escalate: month 0 is taken for a year boundary too
Escalate_FromMonthZero(c, f) ==
    IF f.m % 12 = 0
    THEN LET price == FMul(f.current_price, Q + pct_to_dec(c.appreciation_percent_per_year))
         IN  [f EXCEPT
                !.base_rate = FMul(f.base_rate, Q + pct_to_dec(c.rent_growth_percent_per_year)),
                !.current_price = price,
                !.monthly_tax = RoundDiv(FMul(price, pct_to_dec(c.tax_percent_of_price_per_year)), 12),
                !.monthly_ins = RoundDiv(FMul(price, pct_to_dec(c.insurance_percent_of_price_per_year)), 12),
                !.monthly_maint = RoundDiv(FMul(price, pct_to_dec(c.maintenance_percent_of_price_per_year)), 12)]
    ELSE f

\* the annual bumps at the head of the loop body
Escalate(c, f) ==
    IF f.m > 0 /\ f.m % 12 = 0
    THEN LET price == FMul(f.current_price, Q + pct_to_dec(c.appreciation_percent_per_year))
         IN  [f EXCEPT
                !.base_rate = FMul(f.base_rate, Q + pct_to_dec(c.rent_growth_percent_per_year)),
                !.current_price = price,
                !.monthly_tax = RoundDiv(FMul(price, pct_to_dec(c.tax_percent_of_price_per_year)), 12),
                !.monthly_ins = RoundDiv(FMul(price, pct_to_dec(c.insurance_percent_of_price_per_year)), 12),
                !.monthly_maint = RoundDiv(FMul(price, pct_to_dec(c.maintenance_percent_of_price_per_year)), 12)]
    ELSE f

\* faulty variant of PrincipalPaid: the principal is not capped at the balance
PrincipalPaid_NoCap(c, mmtg, bal) == clamp_nonnegative(mmtg - FMul(bal, monthly_rate(c)))

\* the mortgage split of one month: principal paid on balance bal with payment mmtg
PrincipalPaid(c, mmtg, bal) == clamp_nonnegative(Min(mmtg - FMul(bal, monthly_rate(c)), bal))

\* faulty variant of NextPayment: the payment is kept after the payoff
NextPayment_Kept(mmtg, bal) == mmtg

\* what the payment of the next month is, given the balance after this one
NextPayment(mmtg, bal) == IF bal <= 0 THEN 0 ELSE mmtg

\* faulty variant of MonthlyCashFlow: the debt service is left out
MonthlyCashFlow_NoDebt(eff_rent, expenses, mmtg) == eff_rent - expenses

\* the month's cash flow after debt service
MonthlyCashFlow(eff_rent, expenses, mmtg) == eff_rent - expenses - mmtg

\* one iteration of the loop of run()
StepMonth(c, f) ==
    LET g == Escalate(c, f)
        eff_rent == calculate_monthly_revenue(c, g.base_rate)
        interest == FMul(g.balance, monthly_rate(c))
        principal == PrincipalPaid(c, g.mmtg, g.balance)
        balance == clamp_nonnegative(g.balance - principal)
        expenses == g.monthly_tax + g.monthly_ins + g.monthly_maint + c.other_costs_monthly
        monthly_cf == MonthlyCashFlow(eff_rent, expenses, g.mmtg)
        cumulative_cf == g.cumulative_cf + monthly_cf
        rec == [ date |-> g.date,
                 month_index |-> g.m,
                 effective_rent |-> eff_rent,
                 expenses |-> expenses,
                 mortgage_payment |-> g.mmtg,
                 interest |-> interest,
                 principal |-> principal,
                 balance |-> balance,
                 monthly_cash_flow |-> monthly_cf,
                 cumulative_cash_flow |-> cumulative_cf,
                 property_value |-> g.current_price ]
    IN  [g EXCEPT
           !.balance = balance,
           !.cumulative_cf = cumulative_cf,
           !.cumulative_principal = g.cumulative_principal + principal,
           !.ts = Append(g.ts, rec),
           !.date = AddMonth(g.date),
           !.mmtg = NextPayment(g.mmtg, balance),
           !.m = g.m + 1]

\* faulty variant of LoopDone: the loop runs one month too many
LoopDone_OneMore(c, f) == f.m > total_months(c)

\* the loop runs for m in range(total_months)
LoopDone(c, f) == f.m >= total_months(c)

\* faulty variant of PaybackMonth: payback is taken as the running total reaching zero
PaybackMonth_ZeroCrossing(c, ts) ==
    IF ts[1].cumulative_cash_flow >= 0 THEN Some(0)
    ELSE LET crossed == {k \in 1..Len(ts) : ts[k].cumulative_cash_flow >= 0}
         IN  IF crossed = {} THEN None
             ELSE Some((CHOOSE k \in crossed : \A j \in crossed : k <= j) - 1)

\* payback_month: 0 when month 0 is not negative, else the first month whose
\* cumulative cash flow reaches the upfront amount, else None
PaybackMonth(c, ts) ==
    IF ts[1].cumulative_cash_flow >= 0 THEN Some(0)
    ELSE LET crossed == {k \in 1..Len(ts) : ts[k].cumulative_cash_flow >= total_upfront(c)}
         IN  IF crossed = {} THEN None
             ELSE Some((CHOOSE k \in crossed : \A j \in crossed : k <= j) - 1)

\* what run() raises after the loop, None when it returns: the first row of an
\* empty frame does not exist (KeyError), the cash-on-cash ratio may divide by 0
SummaryRaises(c, f) ==
    IF Len(f.ts) = 0 THEN Some("KeyError")
    ELSE IF initial_coc_raises(c) THEN Some("ZeroDivisionError")
    ELSE None

\* faulty variant of Summary: the equity is taken on the purchase price
Summary_PurchasePriceEquity(c, f) ==
    LET upfront == total_upfront(c)
        neg_cf == Min(0, f.cumulative_cf)
        terminal_equity == c.purchase_price - f.balance
    IN  [ monthly_mortgage |-> mortgage_payment_monthly(c),
          initial_cash_on_cash_percent |-> initial_cash_on_cash_percent(c),
          ending_monthly_cash_flow |-> f.ts[Len(f.ts)].monthly_cash_flow,
          cumulative_cash_flow |-> f.cumulative_cf,
          terminal_equity |-> terminal_equity,
          total_invested_est |-> upfront + Abs(neg_cf),
          total_return_est |-> terminal_equity - (c.purchase_price - down_payment(c)) + f.cumulative_cf,
          payback_month_on_upfront |-> PaybackMonth(c, f.ts) ]

\* the results dict run() stores
Summary(c, f) ==
    LET upfront == total_upfront(c)
        neg_cf == Min(0, f.cumulative_cf)
        terminal_equity == f.current_price - f.balance
    IN  [ monthly_mortgage |-> mortgage_payment_monthly(c),
          initial_cash_on_cash_percent |-> initial_cash_on_cash_percent(c),
          ending_monthly_cash_flow |-> f.ts[Len(f.ts)].monthly_cash_flow,
          cumulative_cash_flow |-> f.cumulative_cf,
          terminal_equity |-> terminal_equity,
          total_invested_est |-> upfront + Abs(neg_cf),
          total_return_est |-> terminal_equity - (c.purchase_price - down_payment(c)) + f.cumulative_cf,
          payback_month_on_upfront |-> PaybackMonth(c, f.ts) ]

\* run() as one call: the locals after the loop
RECURSIVE RunLoop(_, _)
RunLoop(c, f) ==
    IF LoopDone(c, f) THEN f
    ELSE CHOOSE r \in {RunLoop(c, g) : g \in {StepMonth(c, f)}} : TRUE

\* what run() leaves once the loop has ended with locals f: the exception
\* raised (None when it returns) and the df and results fields
AfterLoop(c, f) ==
    IF SummaryRaises(c, f) # None
    THEN [raised |-> SummaryRaises(c, f), df |-> Some(f.ts), results |-> None]
    ELSE [raised |-> None, df |-> Some(f.ts), results |-> Some(Summary(c, f))]

\* run() as one call on a fresh instance
RunOutcome(c) ==
    IF mortgage_payment_raises(c) \/ (total_months(c) > 0 /\ revenue_raises(c))
    THEN [raised |-> Some("ZeroDivisionError"), df |-> None, results |-> None]
    ELSE CHOOSE o \in {AfterLoop(c, f) : f \in {RunLoop(c, RunLocals(c))}} : TRUE

\* ------------------------------------- AutoSim.down_payment_for_cashflow
\* faulty variant of Linspace: the samples are spaced as if the end point were excluded
Linspace_NoEndpoint(start, stop, num) ==
    [i \in 1..(IF num > 0 THEN num ELSE 0) |-> start + (i - 1) * RoundDiv(stop - start, num)]

\* np.linspace(start, stop, num), num >= 0: num samples start + i*step with
\* step = (stop - start)/(num - 1), the last one set to stop; one sample is
\* start alone
Linspace(start, stop, num) ==
    [i \in 1..(IF num > 0 THEN num ELSE 0) |->
        IF num > 1 /\ i = num THEN stop
        ELSE IF num > 1 THEN start + (i - 1) * RoundDiv(stop - start, num - 1)
        ELSE start]

\* np.linspace raises ValueError on a negative number of samples
LinspaceRaises(num) == num < 0

\* replace(base_sim, down_payment_percent=p): a new instance, df and results unset
Replace(c, p) == [c EXCEPT !.down_payment_percent = p]

\* faulty variant of ReplaceInstance: a shallow copy, the cached df and results kept
ReplaceInstance_KeepCache(inst, p) == [inst EXCEPT !.cfg = Replace(inst.cfg, p)]

\* replace() on the instance inst: __init__ is called with the fields of inst
\* and the one override; df and results are not init fields, so the new
\* instance gets their defaults
ReplaceInstance(inst, p) == [cfg |-> Replace(inst.cfg, p), df |-> None, results |-> None]

\* the result_dict of one sample: first-month figures of the run, and its kpis
ResultDict(c, out) ==
    [ down_payment_percentage |-> c.down_payment_percent,
      down_payment |-> down_payment(c),
      monthly_cash_flow |-> out.df[1][1].monthly_cash_flow,
      effective_rent |-> out.df[1][1].effective_rent,
      monthly_expenses |-> out.df[1][1].expenses,
      monthly_mortgage |-> out.df[1][1].mortgage_payment,
      initial_coc_percent |-> out.results[1].initial_cash_on_cash_percent,
      cumulative_cf |-> out.results[1].cumulative_cash_flow,
      terminal_equity |-> out.results[1].terminal_equity ]

\* the ways a caller's progress_callback can treat the row it is handed: not
\* supplied, read only, or written to
CallbackKinds == {"none", "reads", "writes"}

\* the row held in the results list once the callback has returned: the
\* callback is handed that very dict, so what it writes into it stays
RowAfterCallback(cb, row) ==
    IF cb = "writes" THEN [row EXCEPT !.monthly_cash_flow = Q] ELSE row

\* faulty variant of StopEarly: the comparison is the wrong way round
StopEarly_Negative(monthly_cashflow) == monthly_cashflow < 0

\* faulty variant of StopEarly: the sweep never stops early
StopEarly_Never(monthly_cashflow) == FALSE

\* the early exit: stop once the first-month cash flow is positive
StopEarly(monthly_cashflow) == monthly_cashflow > 0

\* faulty variant of BreakEven: the first row is taken whatever its cash flow
BreakEven_Unfiltered(rows) ==
    [amount |-> Some(rows[1].down_payment), percent |-> Some(rows[1].down_payment_percentage)]

\* the break-even pair: the first row with positive cash flow, else None, None
BreakEven(rows) ==
    LET positive_cf == {k \in 1..Len(rows) : rows[k].monthly_cash_flow > 0}
    IN  IF positive_cf # {}
        THEN LET k == CHOOSE k \in positive_cf : \A j \in positive_cf : k <= j
             IN  [amount |-> Some(rows[k].down_payment),
                  percent |-> Some(rows[k].down_payment_percentage)]
        ELSE [amount |-> None, percent |-> None]

\* ------------------------------------------------------------------ state
VARIABLES
    cfg,          \* the PropertySim instance: its configuration fields
    df,           \* its df field: None or the MonthRecord sequence of the last run
    results,      \* its results field: None (the empty dict) or the summary
    pc,           \* where the call of run() stands: "idle", "loop", "done", "raised"
    err,          \* the exception that ended run(), None when none did
    frame,        \* the locals of the running run()
    calls,        \* the calls of run() and kpis() made on the instance
    first,        \* what the first completed run() stored: None or (df, results)
    request,      \* the arguments of down_payment_for_cashflow
    spc,          \* where the sweep stands: "idle", "loop", "after", "done", "raised"
    serr,         \* the exception that ended the sweep
    idx,          \* the sweep's loop index
    sweep_rows,   \* the sweep's results list
    engine_runs,  \* the calls of sim.run() the sweep has made
    callbacks,    \* the calls of progress_callback made, as (index, total, row)
    fresh,        \* the sample engines as replace() returned them, in order
    ret,          \* what the sweep returned: None or (rows, amount, percentage)
    properties,   \* the rows of table properties
    scenarios,    \* the rows of table scenarios
    runs,         \* the rows of table runs
    db_last       \* the last sim_db call: its name, arguments, outcome, rows before

engine_vars == <<cfg, df, results, pc, err, frame, calls, first>>
sweep_vars == <<request, spc, serr, idx, sweep_rows, engine_runs, callbacks, fresh, ret>>
db_vars == <<properties, scenarios, runs, db_last>>
vars == <<cfg, df, results, pc, err, frame, calls, first,
          request, spc, serr, idx, sweep_rows, engine_runs, callbacks, fresh, ret,
          properties, scenarios, runs, db_last>>

\* ----------------------------------------------------------------- inputs
StartDates == { [year |-> 2025, month |-> 1, day |-> 1],
                [year |-> 2023, month |-> 12, day |-> 31] }

\* a configuration is valid when price, amortization term and horizon are positive
ValidConfig(c) == c.purchase_price > 0 /\ c.amort_years > 0 /\ c.years > 0

ValidConfigs ==
    { [BaseConfig EXCEPT
         !.purchase_price = price, !.down_payment_percent = dp,
         !.annual_interest_percent = rate, !.amort_years = amort, !.years = yrs,
         !.rental_type = rtype, !.monthly_rent = rent,
         !.closing_costs_percent_of_price = closing, !.start_date = sd] :
      price \in {1000 * Q, 1200 * Q}, dp \in {0, 20 * Q, 100 * Q},
      rate \in {0, 6 * Q}, amort \in 1..MaxAmortYears, yrs \in 1..MaxYears,
      rtype \in {"long_term", "short_term"}, rent \in {60 * Q, 120 * Q},
      closing \in {0, 2 * Q}, sd \in StartDates }

InvalidConfigs ==
    { [BaseConfig EXCEPT
         !.purchase_price = price, !.amort_years = amort, !.years = yrs,
         !.annual_interest_percent = rate] :
      price \in {-1200 * Q, 0, 1200 * Q}, amort \in -1..1, yrs \in -1..1,
      rate \in {0, 6 * Q} } \ ValidConfigs

\* the rental types calculate_monthly_revenue tells apart by name
RentalTypes == {"long_term", "short_term"}

\* configurations whose rental_type is neither of them
UnrecognizedConfigs ==
    { [BaseConfig EXCEPT !.rental_type = rtype, !.down_payment_percent = dp, !.years = yrs] :
      rtype \in {"vacation", ""}, dp \in {0, 20 * Q}, yrs \in 1..MaxYears }

\* configurations with a flat monthly add-on cost
OtherCostConfigs ==
    { [BaseConfig EXCEPT !.other_costs_monthly = other, !.rental_type = rtype, !.years = yrs] :
      other \in {1 * Q, 5 * (Q \div 2)}, rtype \in RentalTypes, yrs \in 1..MaxYears }

NoRequest == [upper_limit |-> 0, lower_limit |-> 0, num_simulations |-> 0, progress_callback |-> "none"]
NoFrame == None

EngineIdle == pc = "idle" /\ err = None /\ frame = NoFrame /\ calls = 0 /\ first = None
SweepIdle ==
    /\ request = NoRequest /\ spc = "idle" /\ serr = None /\ idx = 0
    /\ sweep_rows = <<>> /\ engine_runs = 0 /\ callbacks = <<>> /\ fresh = <<>>
    /\ ret = None

\* the three tables as init_db creates them
EmptyTables == [properties |-> {}, scenarios |-> {}, runs |-> {}]
NoArg == [id |-> None, text |-> ""]
DbIdle ==
    /\ properties = {} /\ scenarios = {} /\ runs = {}
    /\ db_last = [op |-> "init_db", arg |-> NoArg, ret |-> None, raised |-> None,
                  before |-> EmptyTables]

\* ------------------------------------------------------ engine: run()
Init ==
    /\ cfg \in ValidConfigs \cup InvalidConfigs \cup UnrecognizedConfigs \cup OtherCostConfigs
    /\ df = None /\ results = None
    /\ EngineIdle
    /\ SweepIdle
    /\ DbIdle

\* faulty variant of RunEnter: the running total starts from the cached summary
RunEnter_CarryOver ==
    /\ pc \in {"idle", "done", "raised"} /\ calls < MaxCalls
    /\ calls' = calls + 1
    /\ IF mortgage_payment_raises(cfg)
       THEN /\ pc' = "raised" /\ err' = Some("ZeroDivisionError")
            /\ UNCHANGED frame
       ELSE /\ pc' = "loop" /\ err' = None
            /\ frame' = [RunLocals(cfg) EXCEPT
                           !.cumulative_cf =
                               IF results # None THEN results[1].cumulative_cash_flow ELSE 0]
    /\ UNCHANGED <<cfg, df, results, first>>
    /\ UNCHANGED sweep_vars
    /\ UNCHANGED db_vars

\* run() is called, on a new instance or again on one that was run before:
\* the lines up to the loop.  The payment formula may raise.
RunEnter ==
    /\ pc \in {"idle", "done", "raised"} /\ calls < MaxCalls
    /\ calls' = calls + 1
    /\ IF mortgage_payment_raises(cfg)
       THEN /\ pc' = "raised" /\ err' = Some("ZeroDivisionError")
            /\ UNCHANGED frame
       ELSE /\ pc' = "loop" /\ err' = None /\ frame' = RunLocals(cfg)
    /\ UNCHANGED <<cfg, df, results, first>>
    /\ UNCHANGED sweep_vars
    /\ UNCHANGED db_vars

\* one month of the loop
RunMonth ==
    /\ pc = "loop" /\ ~LoopDone(cfg, frame)
    /\ IF revenue_raises(cfg)
       THEN /\ pc' = "raised" /\ err' = Some("ZeroDivisionError")
            /\ UNCHANGED frame
       ELSE /\ frame' = StepMonth(cfg, frame)
            /\ UNCHANGED <<pc, err>>
    /\ UNCHANGED <<cfg, df, results, calls, first>>
    /\ UNCHANGED sweep_vars
    /\ UNCHANGED db_vars

\* after the loop: df is stored, then the summary is computed and stored
RunFinish ==
    /\ pc = "loop" /\ LoopDone(cfg, frame)
    /\ df' = Some(frame.ts)
    /\ IF SummaryRaises(cfg, frame) # None
       THEN /\ pc' = "raised" /\ err' = SummaryRaises(cfg, frame)
            /\ UNCHANGED results
       ELSE /\ pc' = "done" /\ results' = Some(Summary(cfg, frame))
            /\ UNCHANGED err
    /\ first' = IF first = None THEN Some([df |-> df', results |-> results']) ELSE first
    /\ UNCHANGED <<cfg, frame, calls>>
    /\ UNCHANGED sweep_vars
    /\ UNCHANGED db_vars

\* kpis(): the stored summary when there is one, else run() is called first
Kpis ==
    /\ pc \in {"idle", "done", "raised"} /\ calls < MaxCalls
    /\ calls' = calls + 1
    /\ IF results # None
       THEN UNCHANGED <<df, results, pc, err, frame, first>>
       ELSE \E out \in {RunOutcome(cfg)} :
              /\ pc' = IF out.raised # None THEN "raised" ELSE "done"
              /\ err' = out.raised
              /\ df' = IF out.df # None THEN out.df ELSE df
              /\ results' = out.results
              /\ frame' = IF out.df # None THEN RunLoop(cfg, RunLocals(cfg)) ELSE frame
              /\ first' = IF first = None /\ out.df # None
                          THEN Some([df |-> out.df, results |-> out.results]) ELSE first
    /\ UNCHANGED cfg
    /\ UNCHANGED sweep_vars
    /\ UNCHANGED db_vars

Next == RunEnter \/ RunMonth \/ RunFinish \/ Kpis

Spec == Init /\ [][Next]_vars

\* ------------------------------------- sweep: down_payment_for_cashflow
SweepConfigs ==
    { [BaseConfig EXCEPT
         !.annual_interest_percent = rate, !.monthly_rent = rent,
         !.rental_type = rtype, !.closing_costs_percent_of_price = closing] :
      rate \in {0, 6 * Q}, rent \in {0, 60 * Q, 120 * Q},
      rtype \in {"long_term", "short_term"}, closing \in {0, 2 * Q} }

Requests ==
    [ upper_limit : {0, 20 * Q, 50 * Q, 100 * Q},
      lower_limit : {0, 20 * Q, 50 * Q, 100 * Q},
      num_simulations : -1..MaxSims,
      progress_callback : {"none", "reads"} ]

\* a sweep request is valid when lower < upper and there are at least 2 samples
ValidRequest(r) == r.lower_limit < r.upper_limit /\ r.num_simulations >= 2

\* down_payment_range of the running sweep
Samples == Linspace(request.lower_limit, request.upper_limit, request.num_simulations)

\* the start of a sweep whose request is drawn from reqs: the reference
\* instance is new, or has been run before and holds its df and results
SweepStart(reqs) ==
    /\ cfg \in SweepConfigs
    /\ \E ran \in BOOLEAN :
          IF ran
          THEN \E out \in {RunOutcome(cfg)} :
                  /\ df = out.df /\ results = out.results
                  /\ calls = 1 /\ first = Some([df |-> out.df, results |-> out.results])
          ELSE df = None /\ results = None /\ calls = 0 /\ first = None
    /\ pc = "idle" /\ err = None /\ frame = NoFrame
    /\ request \in reqs
    /\ spc = "idle" /\ serr = None /\ idx = 0
    /\ sweep_rows = <<>> /\ engine_runs = 0 /\ callbacks = <<>> /\ fresh = <<>>
    /\ ret = None
    /\ DbIdle

SweepInit == SweepStart(Requests)

\* the call, up to the loop: the sample percentages are laid out
SweepEnter ==
    /\ spc = "idle"
    /\ IF LinspaceRaises(request.num_simulations)
       THEN spc' = "raised" /\ serr' = Some("ValueError")
       ELSE spc' = "loop" /\ UNCHANGED serr
    /\ UNCHANGED <<request, idx, sweep_rows, engine_runs, callbacks, fresh, ret>>
    /\ UNCHANGED engine_vars
    /\ UNCHANGED db_vars

\* one iteration of the loop: a fresh engine is made for the sample, run, its
\* row appended, the callback called, and the loop left on a positive cash flow
SweepSample ==
    /\ spc = "loop" /\ idx < Len(Samples)
    /\ \E inst \in {ReplaceInstance([cfg |-> cfg, df |-> df, results |-> results],
                                    Samples[idx + 1])} :
       \E sim \in {inst.cfg} : \E out \in {RunOutcome(sim)} :
           /\ fresh' = Append(fresh, inst)
           /\ engine_runs' = engine_runs + 1
           /\ IF out.raised # None
              THEN /\ spc' = "raised" /\ serr' = out.raised
                   /\ UNCHANGED <<idx, sweep_rows, callbacks>>
              ELSE LET result_dict == ResultDict(sim, out)
                   IN  /\ sweep_rows' =
                             Append(sweep_rows,
                                    RowAfterCallback(request.progress_callback, result_dict))
                       /\ callbacks' =
                             IF request.progress_callback # "none"
                             THEN Append(callbacks, <<idx + 1, request.num_simulations, result_dict>>)
                             ELSE callbacks
                       /\ IF StopEarly(result_dict.monthly_cash_flow)
                          THEN spc' = "after" /\ UNCHANGED idx
                          ELSE idx' = idx + 1 /\ UNCHANGED spc
                       /\ UNCHANGED serr
    /\ UNCHANGED <<request, ret>>
    /\ UNCHANGED engine_vars
    /\ UNCHANGED db_vars

\* after the loop: the rows become a frame (an empty one has no column to
\* filter on: KeyError), the break-even pair is selected, the call returns
SweepFinish ==
    /\ spc = "after" \/ (spc = "loop" /\ idx >= Len(Samples))
    /\ IF sweep_rows = <<>>
       THEN spc' = "raised" /\ serr' = Some("KeyError") /\ UNCHANGED ret
       ELSE /\ spc' = "done"
            /\ ret' = Some([ results_df |-> sweep_rows,
                             down_payment_cashflow |-> BreakEven(sweep_rows).amount,
                             down_payment_percent_cashflow |-> BreakEven(sweep_rows).percent ])
            /\ UNCHANGED serr
    /\ UNCHANGED <<request, idx, sweep_rows, engine_runs, callbacks, fresh>>
    /\ UNCHANGED engine_vars
    /\ UNCHANGED db_vars

SweepNext == SweepEnter \/ SweepSample \/ SweepFinish

SpecSweep == SweepInit /\ [][SweepNext]_vars

\* ---------------------------- sweep with any kind of progress callback
ObserverRequests ==
    [ upper_limit : {20 * Q, 100 * Q},
      lower_limit : {0, 20 * Q},
      num_simulations : 0..MaxSims,
      progress_callback : CallbackKinds ]

ObserverInit == SweepStart(ObserverRequests)

SpecObserver == ObserverInit /\ [][SweepNext]_vars

\* ------------------------------------------------------- store: sim_db
\* the ids of the rows of a table
Ids(table) == { r.id : r \in table }

\* the rowid an INSERT gives a new row: one more than the largest in the table
NextRowId(table) ==
    IF table = {} THEN 1
    ELSE (CHOOSE i \in Ids(table) : \A j \in Ids(table) : j <= i) + 1

\* whether a dict's "id" entry is there and truthy
HasId(prop) == prop.id # None /\ prop.id[1] # 0

\* UPDATE properties SET ... WHERE id = i
UpdateProperty(table, i, address) ==
    { IF p.id = i THEN [p EXCEPT !.address = address] ELSE p : p \in table }

\* UPDATE scenarios SET name ... WHERE id = i
UpdateScenarioRow(table, i, name) ==
    { IF s.id = i THEN [s EXCEPT !.name = name] ELSE s : s \in table }

\* the scenarios left when property pid is deleted (ON DELETE CASCADE)
CascadeScenarios(table, pid) == { s \in table : s.property_id # pid }

\* faulty variant of CascadeRuns: the runs of removed scenarios stay
CascadeRuns_Keep(table, scens) == table

\* the runs left when only the scenarios scens are left (ON DELETE CASCADE)
CascadeRuns(table, scens) == { r \in table : r.scenario_id \in Ids(scens) }

\* what a call's record keeps of the tables before it: the rows an upsert can
\* change, the rows a delete can cascade to, nothing for the other calls
Before(op) ==
    CASE op = "upsert_property" -> [EmptyTables EXCEPT !.properties = properties]
      [] op \in {"delete_property", "delete_scenario"} ->
            [EmptyTables EXCEPT !.scenarios = scenarios, !.runs = runs]
      [] OTHER -> EmptyTables

Addresses == {"12 Elm St", "7 Oak Ave"}
ScenarioNames == {"base"}

\* the prop dicts handed to upsert_property: without id, with id 0, with an id
PropInputs ==
    [ id : {None} \cup { Some(i) : i \in 0..MaxId }, text : Addresses ]

DbInit ==
    /\ cfg = BaseConfig /\ df = None /\ results = None
    /\ EngineIdle
    /\ SweepIdle
    /\ DbIdle

UpsertProperty ==
    /\ \E prop \in PropInputs :
          IF HasId(prop)
          THEN /\ properties' = UpdateProperty(properties, prop.id[1], prop.text)
               /\ db_last' = [op |-> "upsert_property", arg |-> prop, ret |-> prop.id,
                              raised |-> None, before |-> Before("upsert_property")]
          ELSE /\ NextRowId(properties) <= MaxId
               /\ properties' = properties \cup
                                  {[id |-> NextRowId(properties), address |-> prop.text]}
               /\ db_last' = [op |-> "upsert_property", arg |-> prop,
                              ret |-> Some(NextRowId(properties)),
                              raised |-> None, before |-> Before("upsert_property")]
    /\ UNCHANGED <<scenarios, runs>>
    /\ UNCHANGED engine_vars
    /\ UNCHANGED sweep_vars

DeleteProperty ==
    /\ \E prop_id \in 1..MaxId :
          /\ properties' = { p \in properties : p.id # prop_id }
          /\ scenarios' = CascadeScenarios(scenarios, prop_id)
          /\ runs' = CascadeRuns(runs, CascadeScenarios(scenarios, prop_id))
          /\ db_last' = [op |-> "delete_property", arg |-> [id |-> Some(prop_id), text |-> ""],
                         ret |-> None, raised |-> None, before |-> Before("delete_property")]
    /\ UNCHANGED engine_vars
    /\ UNCHANGED sweep_vars

\* an INSERT whose property_id names no property fails the foreign key
CreateScenario ==
    /\ \E property_id \in 1..MaxId, name \in ScenarioNames :
          IF property_id \notin Ids(properties)
          THEN /\ UNCHANGED scenarios
               /\ db_last' = [op |-> "create_scenario",
                              arg |-> [id |-> Some(property_id), text |-> name],
                              ret |-> None, raised |-> Some("IntegrityError"),
                              before |-> Before("create_scenario")]
          ELSE /\ NextRowId(scenarios) <= MaxId
               /\ scenarios' = scenarios \cup
                                 {[id |-> NextRowId(scenarios), property_id |-> property_id,
                                   name |-> name]}
               /\ db_last' = [op |-> "create_scenario",
                              arg |-> [id |-> Some(property_id), text |-> name],
                              ret |-> Some(NextRowId(scenarios)), raised |-> None,
                              before |-> Before("create_scenario")]
    /\ UNCHANGED <<properties, runs>>
    /\ UNCHANGED engine_vars
    /\ UNCHANGED sweep_vars

UpdateScenario ==
    /\ \E scenario_id \in 1..MaxId, name \in ScenarioNames :
          /\ scenarios' = UpdateScenarioRow(scenarios, scenario_id, name)
          /\ db_last' = [op |-> "update_scenario",
                         arg |-> [id |-> Some(scenario_id), text |-> name],
                         ret |-> None, raised |-> None, before |-> Before("update_scenario")]
    /\ UNCHANGED <<properties, runs>>
    /\ UNCHANGED engine_vars
    /\ UNCHANGED sweep_vars

DeleteScenario ==
    /\ \E scenario_id \in 1..MaxId :
          /\ scenarios' = { s \in scenarios : s.id # scenario_id }
          /\ runs' = CascadeRuns(runs, { s \in scenarios : s.id # scenario_id })
          /\ db_last' = [op |-> "delete_scenario",
                         arg |-> [id |-> Some(scenario_id), text |-> ""],
                         ret |-> None, raised |-> None, before |-> Before("delete_scenario")]
    /\ UNCHANGED properties
    /\ UNCHANGED engine_vars
    /\ UNCHANGED sweep_vars

\* an INSERT whose scenario_id names no scenario fails the foreign key
AddRun ==
    /\ \E scenario_id \in 1..MaxId :
          IF scenario_id \notin Ids(scenarios)
          THEN /\ UNCHANGED runs
               /\ db_last' = [op |-> "add_run", arg |-> [id |-> Some(scenario_id), text |-> ""],
                              ret |-> None, raised |-> Some("IntegrityError"),
                              before |-> Before("add_run")]
          ELSE /\ NextRowId(runs) <= MaxId
               /\ runs' = runs \cup {[id |-> NextRowId(runs), scenario_id |-> scenario_id]}
               /\ db_last' = [op |-> "add_run", arg |-> [id |-> Some(scenario_id), text |-> ""],
                              ret |-> Some(NextRowId(runs)), raised |-> None,
                              before |-> Before("add_run")]
    /\ UNCHANGED <<properties, scenarios>>
    /\ UNCHANGED engine_vars
    /\ UNCHANGED sweep_vars

DbNext ==
    UpsertProperty \/ DeleteProperty \/ CreateScenario \/ UpdateScenario
        \/ DeleteScenario \/ AddRun

SpecDb == DbInit /\ [][DbNext]_vars

\* ---------------------------------------------------------------- claims
\* the rows produced so far by the running or finished run()
RowsSoFar == IF pc \in {"loop", "done"} THEN frame.ts ELSE IF df # None THEN df[1] ELSE <<>>
MonthOrdinal(d) == d.year * 12 + d.month

\* C1: for every valid config the produced sequence has exactly years*12 rows,
\* month_index counts 0, 1, 2, ... and the date starts at start_date and moves
\* to the next calendar month from each row to the next.
C1_RowCountIndexDate ==
    ValidConfig(cfg) =>
        LET ts == RowsSoFar
        IN  /\ df # None => Len(df[1]) = cfg.years * 12
            /\ pc = "done" => df = Some(frame.ts)
            /\ \A k \in 1..Len(ts) : ts[k].month_index = k - 1
            /\ Len(ts) >= 1 => ts[1].date = cfg.start_date
            /\ \A k \in 1..(Len(ts) - 1) :
                  /\ MonthOrdinal(ts[k + 1].date) = MonthOrdinal(ts[k].date) + 1
                  /\ ts[k + 1].date.month \in 1..12
                  /\ ts[k + 1].date.day =
                        Min(ts[k].date.day, DaysInMonth(ts[k + 1].date.year, ts[k + 1].date.month))

\* C1 witness: a finished two-year run that started on the 31st of December
C1_Witness ==
    /\ pc = "done" /\ ValidConfig(cfg) /\ cfg.years = 2
    /\ cfg.start_date.day = 31 /\ Len(df[1]) = 24

\* C2 (as claimed): the balance is never negative, never increases, and is
\* exactly 0 from month index amort_years*12 - 1 on.
C2_BalancePaidOffOnSchedule ==
    ValidConfig(cfg) =>
        LET ts == RowsSoFar
        IN  \A k \in 1..Len(ts) :
              /\ ts[k].balance >= 0
              /\ k > 1 => ts[k].balance <= ts[k - 1].balance
              /\ k >= cfg.amort_years * 12 => ts[k].balance = 0

\* the first row whose balance is 0, 0 when there is none
FirstPaidOff(ts) ==
    LET Z == {k \in 1..Len(ts) : ts[k].balance <= 0}
    IN  IF Z = {} THEN 0 ELSE CHOOSE k \in Z : \A j \in Z : k <= j

\* C3: the payment is 0 in every row after the first row with balance 0; in
\* every row before it the payment is the positive payment computed at the
\* start from the initial loan amount.
C3_PaymentConstantThenZero ==
    ValidConfig(cfg) =>
        LET ts == RowsSoFar
            z == FirstPaidOff(ts)
        IN  \A k \in 1..Len(ts) :
              /\ (z # 0 /\ k > z) => ts[k].mortgage_payment = 0
              /\ (z = 0 \/ k < z) =>
                    /\ ts[k].mortgage_payment = mortgage_payment_monthly(cfg)
                    /\ ts[k].mortgage_payment > 0

\* C3 witness: a finished run with rows before and after the payoff row, across
\* an annual escalation
C3_Witness ==
    /\ pc = "done" /\ ValidConfig(cfg)
    /\ FirstPaidOff(frame.ts) > 1 /\ FirstPaidOff(frame.ts) < Len(frame.ts)
    /\ frame.ts[1].mortgage_payment > 0
    /\ frame.ts[Len(frame.ts)].mortgage_payment = 0
    /\ frame.ts[Len(frame.ts)].property_value # cfg.purchase_price

RECURSIVE SumCashFlow(_, _)
SumCashFlow(ts, k) == IF k = 0 THEN 0 ELSE SumCashFlow(ts, k - 1) + ts[k].monthly_cash_flow

\* C4: every row's monthly_cash_flow is effective_rent - expenses -
\* mortgage_payment, its cumulative_cash_flow is the sum of monthly_cash_flow
\* over the rows up to it, and the summary's cumulative_cash_flow is the sum
\* over all rows.
C4_CumulativeIsRunningSum ==
    LET ts == RowsSoFar
    IN  /\ \A k \in 1..Len(ts) :
             /\ ts[k].monthly_cash_flow =
                   ts[k].effective_rent - ts[k].expenses - ts[k].mortgage_payment
             /\ ts[k].cumulative_cash_flow = SumCashFlow(ts, k)
        /\ pc = "done" =>
             results[1].cumulative_cash_flow = SumCashFlow(df[1], Len(df[1]))

\* C4 witness: a finished run whose cash flow changes sign over the horizon
C4_Witness ==
    /\ pc = "done" /\ ValidConfig(cfg) /\ Len(df[1]) = 24
    /\ df[1][1].monthly_cash_flow < 0 /\ df[1][24].monthly_cash_flow > 0
    /\ df[1][1].mortgage_payment > 0
    /\ results[1].cumulative_cash_flow = df[1][24].cumulative_cash_flow

\* C5: the sweep stops sampling at the first row with positive cash flow: only
\* the last row can be positive, after it no further engine run is made and
\* no further row produced, and the rows returned are the rows sampled.
C5_StopsAtFirstPositive ==
    LET n == Len(sweep_rows)
    IN  /\ \A k \in 1..(n - 1) : sweep_rows[k].monthly_cash_flow <= 0
        /\ (n > 0 /\ sweep_rows[n].monthly_cash_flow > 0) =>
              /\ spc \in {"after", "done"}
              /\ engine_runs = n
        /\ engine_runs <= n + 1
        /\ ret # None => ret[1].results_df = sweep_rows

\* C5 witness: a returned sweep that stopped on a positive row before the
\* last sample, after at least one row that was not positive
C5_Witness ==
    /\ spc = "done" /\ ValidRequest(request)
    /\ Len(sweep_rows) >= 2 /\ Len(sweep_rows) < request.num_simulations
    /\ sweep_rows[Len(sweep_rows)].monthly_cash_flow > 0
    /\ engine_runs = Len(sweep_rows)

\* what is left of the call: the stages still ahead, then the samples not yet run
SweepMeasure ==
    (CASE spc = "idle" -> 3 [] spc = "loop" -> 2 [] spc = "after" -> 1 [] OTHER -> 0)
        * (request.num_simulations + 1)
    + (request.num_simulations - engine_runs)

\* the rows of a valid request are ascending and evenly spaced from lower to
\* upper, to within the rounding of the step, and at most n runs are made
C6_Rows ==
    ValidRequest(request) =>
        LET n == request.num_simulations
            lo == request.lower_limit
            hi == request.upper_limit
            rows == sweep_rows
        IN  /\ Len(rows) <= n /\ engine_runs <= n /\ idx <= n
            /\ SweepMeasure >= 0
            /\ \A k \in 1..Len(rows) :
                  LET pct == rows[k].down_payment_percentage
                  IN  /\ k = 1 => pct = lo
                      /\ k = n => pct = hi
                      /\ 2 * Abs(pct * (n - 1) - (lo * (n - 1) + (k - 1) * (hi - lo)))
                            <= (k - 1) * (n - 1)
            /\ \A k \in 1..(Len(rows) - 1) :
                  rows[k].down_payment_percentage < rows[k + 1].down_payment_percentage

\* C6: for a valid request (lower < upper, n >= 2) the rows are strictly
\* ascending in down_payment_percentage and are a prefix of the n evenly
\* spaced percentages from lower to upper; at most n engine runs are made and
\* the sweep terminates.
\* The sweep terminates because every step of a valid request lowers
\* SweepMeasure, which C6_Rows keeps at or above 0.
C6_AscendingEvenPrefixTerminates ==
    /\ []C6_Rows
    /\ [][ValidRequest(request) => SweepMeasure' < SweepMeasure]_vars

\* C6 witness: a returned sweep of all 4 samples, whose step is not a whole
\* number of units
C6_Witness ==
    /\ spc = "done" /\ ValidRequest(request)
    /\ request.num_simulations = 4 /\ Len(sweep_rows) = 4
    /\ (request.upper_limit - request.lower_limit) % 3 # 0
    /\ sweep_rows[4].down_payment_percentage = request.upper_limit

\* the first-month cash flow of the engine run at down payment percentage p
FirstMonthCashFlow(c, p) ==
    CHOOSE v \in {out.df[1][1].monthly_cash_flow : out \in {RunOutcome(Replace(c, p))}} : TRUE

\* C7: the pair returned is (down_payment, percentage) of the first returned
\* row whose first-month cash flow is positive, that is of the smallest
\* sampled percentage at which the engine's month-0 cash flow is positive;
\* both components are None exactly when none of the n sampled percentages
\* has a positive first-month cash flow.
C7_BreakEvenIsFirstPositive ==
    (spc = "done" /\ ValidRequest(request)) =>
        \E cfs \in {[i \in 1..request.num_simulations |-> FirstMonthCashFlow(cfg, Samples[i])]} :
            LET rows == ret[1].results_df
                P == {i \in 1..request.num_simulations : cfs[i] > 0}
                amount == ret[1].down_payment_cashflow
                percent == ret[1].down_payment_percent_cashflow
            IN  /\ (P = {}) <=> (amount = None)
                /\ (P = {}) <=> (percent = None)
                /\ \A k \in 1..Len(rows) : rows[k].monthly_cash_flow = cfs[k]
                /\ P # {} =>
                      LET i == CHOOSE i \in P : \A j \in P : i <= j
                      IN  /\ Len(rows) = i
                          /\ percent = Some(rows[i].down_payment_percentage)
                          /\ amount = Some(rows[i].down_payment)
                          /\ rows[i].down_payment_percentage = Samples[i]
                          /\ rows[i].down_payment = down_payment(Replace(cfg, Samples[i]))

\* C7 witness: a returned sweep whose break-even row is not the first row
C7_Witness ==
    /\ spc = "done" /\ ValidRequest(request)
    /\ Len(sweep_rows) >= 2
    /\ ret[1].down_payment_percent_cashflow
          = Some(sweep_rows[Len(sweep_rows)].down_payment_percentage)
    /\ sweep_rows[1].monthly_cash_flow <= 0

\* the sweep without the early exit: every one of the n samples is run
FullSweepRaises(c, samples) ==
    \E i \in 1..Len(samples) : RunOutcome(Replace(c, samples[i])).raised # None
FullSweepRows(c, samples) ==
    [i \in 1..Len(samples) |->
        CHOOSE row \in {ResultDict(sim, out) :
                          sim \in {Replace(c, samples[i])},
                          out \in {RunOutcome(Replace(c, samples[i]))}} : TRUE]

\* C8: for a valid request the pair reported by the early-exit sweep is the
\* pair a sweep of all n samples, without early exit, reports.
C8_EarlyExitSamePair ==
    (spc = "done" /\ ValidRequest(request)) =>
        /\ ~FullSweepRaises(cfg, Samples)
        /\ \E full \in {BreakEven(FullSweepRows(cfg, Samples))} :
              /\ ret[1].down_payment_cashflow = full.amount
              /\ ret[1].down_payment_percent_cashflow = full.percent

\* C8 witness: the sweep returned early with a pair, samples left unrun
C8_Witness ==
    /\ spc = "done" /\ ValidRequest(request)
    /\ Len(sweep_rows) < request.num_simulations
    /\ ret[1].down_payment_cashflow # None

\* C9 (as claimed): a config whose purchase_price, amort_years or years is zero
\* or negative is rejected before any simulation step is executed: run() on it
\* never produces a MonthRecord and never stores a summary.
C9_InvalidConfigRejected ==
    ~ValidConfig(cfg) =>
        /\ Len(RowsSoFar) = 0
        /\ results = None
        /\ pc # "done"

\* C10 (as claimed): a sweep request with lower_limit >= upper_limit or with
\* num_simulations < 2 is rejected before any engine run: no run is made, no
\* row produced, no progress callback invoked, nothing returned.
C10_InvalidRequestRejected ==
    ~ValidRequest(request) =>
        /\ engine_runs = 0
        /\ sweep_rows = <<>>
        /\ callbacks = <<>>
        /\ ret = None

RecognizedRentalType(c) == c.rental_type \in RentalTypes

\* C11 (as claimed): a config whose rental_type is neither long_term nor
\* short_term is rejected before any computation: run() on it never enters the
\* loop, never computes a row's revenue and never stores a frame or a summary.
C11_UnrecognizedRentalTypeRejected ==
    ~RecognizedRentalType(cfg) =>
        /\ pc \notin {"loop", "done"}
        /\ Len(RowsSoFar) = 0
        /\ df = None /\ results = None

\* C12: the sweep never changes the reference instance: its config fields, df
\* and results stay as they were at the call; every sample engine is a new
\* instance that differs from the reference in down_payment_percent only and
\* has no df and no results when made, also when the reference holds both.
C12_ReferenceNeverMutated ==
    /\ [][cfg' = cfg /\ df' = df /\ results' = results]_vars
    /\ [](\A k \in 1..Len(fresh) :
            /\ fresh[k].df = None /\ fresh[k].results = None
            /\ fresh[k].cfg.down_payment_percent = Samples[k]
            /\ DOMAIN fresh[k].cfg = DOMAIN cfg
            /\ \A fld \in DOMAIN cfg \ {"down_payment_percent"} : fresh[k].cfg[fld] = cfg[fld])

\* C12 witness: a returned sweep of at least 2 samples on a reference that had
\* been run before the call and still holds its frame and summary
C12_Witness ==
    /\ spc = "done" /\ df # None /\ results # None
    /\ Len(fresh) >= 2 /\ engine_runs = Len(fresh)
    /\ fresh[2].cfg.down_payment_percent # cfg.down_payment_percent
    /\ df[1][1].mortgage_payment # sweep_rows[2].monthly_mortgage

\* the rows of the same sweep made without a callback: the samples' rows up to
\* and including the first one with positive cash flow
RowsWithoutCallback(c, samples) ==
    CHOOSE rows \in
        { SubSeq(full, 1,
                 LET P == {i \in 1..Len(full) : full[i].monthly_cash_flow > 0}
                 IN  IF P = {} THEN Len(full) ELSE CHOOSE i \in P : \A j \in P : i <= j) :
          full \in {FullSweepRows(c, samples)} } : TRUE

\* C13 (as claimed): the rows and the break-even pair a sweep returns are those
\* of the same sweep made without a callback, whatever callback was supplied
\* and whatever it does with the index, total and row it is handed.
C13_CallbackHasNoEffect ==
    spc = "done" =>
        \E rows \in {RowsWithoutCallback(cfg, Samples)} :
            /\ ret[1].results_df = rows
            /\ ret[1].down_payment_cashflow = BreakEven(rows).amount
            /\ ret[1].down_payment_percent_cashflow = BreakEven(rows).percent

\* C14: payback_month_on_upfront is 0 when month 0's cumulative cash flow is
\* >= 0; otherwise it is the smallest month index whose cumulative cash flow
\* is >= total_upfront; it is None exactly when month 0 is negative and no
\* month of the horizon reaches total_upfront.
C14_PaybackMonthAsDefined ==
    pc = "done" =>
        LET ts == df[1]
            p == results[1].payback_month_on_upfront
            reached == {k \in 1..Len(ts) : ts[k].cumulative_cash_flow >= total_upfront(cfg)}
        IN  /\ ts[1].cumulative_cash_flow >= 0 => p = Some(0)
            /\ (ts[1].cumulative_cash_flow < 0 /\ reached # {}) =>
                  /\ p # None
                  /\ p[1] + 1 \in reached
                  /\ \A j \in reached : p[1] + 1 <= j
            /\ (p = None) <=> (ts[1].cumulative_cash_flow < 0 /\ reached = {})

\* C14 witness: a finished run that starts negative, is above zero but below
\* the upfront amount for a while, and reaches it before the last month
C14_Witness ==
    /\ pc = "done" /\ ValidConfig(cfg)
    /\ df[1][1].cumulative_cash_flow < 0
    /\ results[1].payback_month_on_upfront # None
    /\ results[1].payback_month_on_upfront[1] > 0
    /\ results[1].payback_month_on_upfront[1] < Len(df[1]) - 1
    /\ \E k \in 1..Len(df[1]) :
          /\ df[1][k].cumulative_cash_flow >= 0
          /\ df[1][k].cumulative_cash_flow < total_upfront(cfg)

\* C15 (as claimed): whenever payback_month_on_upfront is a month p, the row
\* of month index p has cumulative_cash_flow >= total_upfront.
C15_PaybackReachesUpfront ==
    (pc = "done" /\ results[1].payback_month_on_upfront # None) =>
        df[1][results[1].payback_month_on_upfront[1] + 1].cumulative_cash_flow
            >= total_upfront(cfg)

\* C16: after run() the summary's monthly_mortgage is the first row's
\* mortgage_payment, its ending_monthly_cash_flow and cumulative_cash_flow
\* are the last row's monthly_cash_flow and cumulative_cash_flow, and its
\* terminal_equity is the last row's property_value minus its balance.
C16_SummaryFromSequence ==
    pc = "done" =>
        LET ts == df[1]
            last == ts[Len(ts)]
        IN  /\ results[1].monthly_mortgage = ts[1].mortgage_payment
            /\ results[1].ending_monthly_cash_flow = last.monthly_cash_flow
            /\ results[1].cumulative_cash_flow = last.cumulative_cash_flow
            /\ results[1].terminal_equity = last.property_value - last.balance

\* C16 witness: a finished run over an annual escalation whose loan is paid
\* off by the last row, so that first and last row differ
C16_Witness ==
    /\ pc = "done" /\ ValidConfig(cfg)
    /\ df[1][Len(df[1])].property_value > cfg.purchase_price
    /\ df[1][Len(df[1])].monthly_cash_flow # df[1][1].monthly_cash_flow
    /\ results[1].monthly_mortgage > 0
    /\ results[1].terminal_equity = df[1][Len(df[1])].property_value

\* the largest shortfall -cumulative_cash_flow over the rows, 0 when there is none
RECURSIVE LargestShortfall(_, _)
LargestShortfall(ts, k) ==
    IF k = 0 THEN 0
    ELSE LET rest == LargestShortfall(ts, k - 1)
         IN  IF -ts[k].cumulative_cash_flow > rest THEN -ts[k].cumulative_cash_flow ELSE rest

\* C17 (as claimed): total_invested_est is at least total_upfront plus the
\* largest shortfall of the running cumulative cash flow over all months, and
\* is total_upfront when the cumulative cash flow is never negative.
C17_ShortfallCountedAsInvested ==
    pc = "done" =>
        \E worst \in {LargestShortfall(df[1], Len(df[1]))} :
            /\ results[1].total_invested_est >= total_upfront(cfg) + worst
            /\ worst = 0 => results[1].total_invested_est = total_upfront(cfg)

\* the percentage fields of a configuration
Percentages(c) ==
    { c.down_payment_percent, c.annual_interest_percent, c.rent_growth_percent_per_year,
      c.vacancy_percent, c.occupancy_percent, c.platform_fee_percent,
      c.tax_percent_of_price_per_year, c.insurance_percent_of_price_per_year,
      c.maintenance_percent_of_price_per_year, c.appreciation_percent_per_year,
      c.closing_costs_percent_of_price }

\* a configuration passes validation: positive price, amortization term and
\* horizon, a recognized rental type, percentages within 0..100
PassesValidation(c) ==
    /\ ValidConfig(c)
    /\ RecognizedRentalType(c)
    /\ \A pct \in Percentages(c) : 0 <= pct /\ pct <= 100 * Q

\* C18 (as claimed): for every config that passes validation run() and kpis()
\* never raise, and a completed call leaves the full sequence and a summary;
\* also with total_upfront = 0, with a zero interest rate and for short_term.
C18_ValidConfigNeverRaises ==
    PassesValidation(cfg) =>
        /\ pc # "raised" /\ err = None
        /\ (calls > 0 /\ pc # "loop") =>
              /\ pc = "done" /\ results # None
              /\ df # None /\ Len(df[1]) = cfg.years * 12

\* C19: the engine is a function of its config: a run repeated on the same
\* instance, by run() or by kpis(), in any order, produces the rows and
\* leaves the df and results that the first run did, and these are what a new
\* engine with the same config fields produces.
C19_RerunSameResult ==
    /\ first # None =>
          /\ df = first[1].df /\ results = first[1].results
          /\ (pc = "loop" /\ LoopDone(cfg, frame)) => frame.ts = first[1].df[1]
    /\ pc = "done" =>
          \E out \in {RunOutcome(cfg)} :
              /\ out.raised = None
              /\ df = out.df /\ results = out.results

\* C19 witness: a second call of run() on an instance that holds a negative
\* cumulative cash flow from its first run, at the end of its loop with the
\* rows of the first run
C19_Witness ==
    /\ ValidConfig(cfg) /\ calls = 2 /\ first # None /\ results # None
    /\ results[1].cumulative_cash_flow < 0
    /\ pc = "loop" /\ LoopDone(cfg, frame)
    /\ frame.ts = df[1]

\* C20: all other fields fixed and the interest rate >= 0, the engine's month-0
\* cash flow does not decrease when down_payment_percent increases; so among
\* the samples of a sweep, run in full, every one after the first with a
\* positive cash flow has a positive cash flow too.  Stated once the sweep has
\* ended, on its reference config and its samples.
C20_CashFlowMonotoneInDownPayment ==
    (spc \in {"done", "raised"} /\ request.num_simulations >= 0
        /\ cfg.annual_interest_percent >= 0) =>
        \E cfs \in {[i \in 1..request.num_simulations |-> FirstMonthCashFlow(cfg, Samples[i])]} :
            /\ \A i, j \in 1..request.num_simulations :
                  Samples[i] <= Samples[j] => cfs[i] <= cfs[j]
            /\ \A k \in 1..Len(sweep_rows) :
                  sweep_rows[k].monthly_cash_flow = cfs[k]
            /\ request.lower_limit <= request.upper_limit =>
                  \A i, j \in 1..request.num_simulations : (i < j /\ cfs[i] > 0) => cfs[j] > 0

\* C20 witness: a sweep that returned early on its first positive row, after a
\* row with a lower cash flow; the sample left unrun has a higher one still
C20_Witness ==
    /\ spc = "done" /\ ValidRequest(request)
    /\ Len(sweep_rows) >= 2 /\ Len(sweep_rows) < request.num_simulations
    /\ sweep_rows[1].monthly_cash_flow < sweep_rows[Len(sweep_rows)].monthly_cash_flow
    /\ sweep_rows[Len(sweep_rows)].monthly_cash_flow > 0
    /\ FirstMonthCashFlow(cfg, Samples[request.num_simulations])
          > sweep_rows[Len(sweep_rows)].monthly_cash_flow

\* C21: for a valid config, down_payment = purchase_price*down_payment_percent/100
\* (to within the rounding of the product), loan_amount = max(0, purchase_price
\* - down_payment), never negative and 0 at 100% or more, total_upfront =
\* down_payment + closing_costs; at 0% the loan is the purchase price and
\* total_upfront the closing costs alone; month 0 opens on loan_amount.
C21_UpfrontQuantities ==
    ValidConfig(cfg) =>
        LET down == down_payment(cfg)
            loan == loan_amount(cfg)
            ts == RowsSoFar
        IN  /\ Abs(down * 100 - (cfg.purchase_price \div Q) * cfg.down_payment_percent) <= 100
            /\ loan = (IF cfg.purchase_price - down > 0 THEN cfg.purchase_price - down ELSE 0)
            /\ loan >= 0
            /\ cfg.down_payment_percent >= 100 * Q => loan = 0
            /\ total_upfront(cfg) = down + closing_costs(cfg)
            /\ cfg.down_payment_percent = 0 =>
                  /\ loan = cfg.purchase_price
                  /\ total_upfront(cfg) = closing_costs(cfg)
            /\ (pc = "loop" /\ frame.m = 0) => frame.balance = loan
            /\ Len(ts) >= 1 =>
                  /\ ts[1].balance + ts[1].principal = loan
                  /\ Abs(ts[1].interest * Q - loan * monthly_rate(cfg)) <= Q \div 2

\* C21 witness: after month 0 of a run with a 20% down payment, closing costs
\* and interest: the loan is less than the price, and part of it is repaid
C21_Witness ==
    /\ ValidConfig(cfg) /\ pc = "loop" /\ frame.m = 1
    /\ cfg.down_payment_percent = 20 * Q
    /\ down_payment(cfg) * 5 = cfg.purchase_price
    /\ total_upfront(cfg) > down_payment(cfg)
    /\ frame.ts[1].interest > 0 /\ frame.ts[1].principal > 0
    /\ frame.ts[1].balance < loan_amount(cfg)

\* the revenue formulas as the claims give them, for whole percentages and a
\* whole number of nights per stay, in one rounded division per step
ExpectedRevenue(c, base) ==
    IF c.rental_type = "short_term"
    THEN LET occupied_hundredths == 30 * (c.occupancy_percent \div Q)
             nights == c.avg_stay_length_nights \div Q
             gross == RoundDiv((base * nights + c.cleaning_fee_per_stay) * occupied_hundredths,
                               100 * nights)
         IN  RoundDiv(gross * (100 - c.platform_fee_percent \div Q), 100)
    ELSE RoundDiv(base * (100 - c.vacancy_percent \div Q), 100)

\* the base rate of a configuration: nightly_rate for short_term, else monthly_rent
ConfigBase(c) == IF c.rental_type = "short_term" THEN c.nightly_rate ELSE c.monthly_rent

\* C22: for long_term effective_rent = base*(1 - vacancy/100); for short_term
\* effective_rent = (base*occupied_days + cleaning_fee*num_stays)*(1 -
\* platform_fee/100) with occupied_days = 30*occupancy/100 and num_stays =
\* occupied_days/avg_stay_length_nights; the base is monthly_rent for
\* long_term and nightly_rate for short_term, in the rows of run() (first
\* year, before any escalation) and in the initial cash-on-cash alike.
C22_RevenueModel ==
    RecognizedRentalType(cfg) =>
        LET ts == RowsSoFar
            expected == ExpectedRevenue(cfg, ConfigBase(cfg))
            noi == 12 * expected
                   - (tax_yearly(cfg) + insurance_yearly(cfg) + maintenance_yearly(cfg)
                      + 12 * cfg.other_costs_monthly)
        IN  /\ \A k \in 1..Len(ts) : k <= 12 => Abs(ts[k].effective_rent - expected) <= 2
            /\ pc = "done" =>
                  Abs(FMul(results[1].initial_cash_on_cash_percent \div 100, total_upfront(cfg))
                      - noi)
                     <= Abs(total_upfront(cfg)) \div Q + 26

\* C22 witness: a finished short_term run: the first row's revenue is above
\* the nightly rate times the occupied nights less the platform fee, by the
\* cleaning fees
C22_Witness ==
    /\ pc = "done" /\ cfg.rental_type = "short_term" /\ ValidConfig(cfg)
    /\ df[1][1].effective_rent > (((cfg.nightly_rate \div 100) * 1950) * 85) \div 100
    /\ df[1][1].effective_rent < (cfg.nightly_rate \div 100) * 3000
    /\ results[1].initial_cash_on_cash_percent > 0

\* the base rate and the property value of simulation year y as the claim gives
\* them: the start value times (1 + percent/100), y times over
RECURSIVE YearBase(_, _)
YearBase(c, y) ==
    IF y = 0 THEN ConfigBase(c)
    ELSE RoundDiv(YearBase(c, y - 1) * (100 + c.rent_growth_percent_per_year \div Q), 100)

RECURSIVE YearPrice(_, _)
YearPrice(c, y) ==
    IF y = 0 THEN c.purchase_price
    ELSE RoundDiv(YearPrice(c, y - 1) * (100 + c.appreciation_percent_per_year \div Q), 100)

\* the monthly expenses on a property value pv as the claim gives them
ExpectedExpenses(c, pv) ==
    RoundDiv(RoundDiv(pv, 1000)
                * ((c.tax_percent_of_price_per_year + c.insurance_percent_of_price_per_year
                    + c.maintenance_percent_of_price_per_year) \div 10),
             1200)
    + c.other_costs_monthly

\* C23: escalation happens exactly at the months m > 0 with m % 12 = 0: in
\* simulation year y the rows carry the revenue of base*(1+growth/100)^y, the
\* property value purchase_price*(1+appreciation/100)^y and the expenses
\* property_value*(tax%+insurance%+maintenance%)/100/12 + other_costs_monthly;
\* within a year effective_rent, expenses and property_value do not change.
C23_AnnualEscalation ==
    LET ts == RowsSoFar
    IN  \A k \in 1..Len(ts) :
          LET y == (k - 1) \div 12
          IN  /\ Abs(ts[k].property_value - YearPrice(cfg, y)) <= y
              /\ Abs(ts[k].effective_rent - ExpectedRevenue(cfg, YearBase(cfg, y))) <= 2 + y
              /\ Abs(ts[k].expenses - ExpectedExpenses(cfg, ts[k].property_value)) <= 3
              /\ (k > 1 /\ (k - 1) % 12 # 0) =>
                    /\ ts[k].property_value = ts[k - 1].property_value
                    /\ ts[k].effective_rent = ts[k - 1].effective_rent
                    /\ ts[k].expenses = ts[k - 1].expenses

\* C23 witness: a finished two-year short_term run: month 12 is above month 11
\* in value, revenue and expenses, by less than the growth of the whole revenue
C23_Witness ==
    /\ pc = "done" /\ ValidConfig(cfg) /\ cfg.rental_type = "short_term"
    /\ Len(df[1]) = 24
    /\ df[1][13].property_value > df[1][12].property_value
    /\ df[1][13].expenses > df[1][12].expenses
    /\ df[1][13].effective_rent > df[1][12].effective_rent
    /\ df[1][13].effective_rent * 100 < df[1][12].effective_rent * 102
    /\ df[1][24].property_value = df[1][13].property_value
    /\ cfg.other_costs_monthly > 0

\* the balance outstanding before the payment of row k
BalanceBefore(c, ts, k) == IF k = 1 THEN loan_amount(c) ELSE ts[k - 1].balance

\* C24 (as claimed): in every row the principal is at most the balance
\* outstanding before the payment, and the mortgage_payment charged to the
\* month's cash flow is the interest plus the principal of the row.
C24_FinalPaymentNeverOverpays ==
    ValidConfig(cfg) =>
        LET ts == RowsSoFar
        IN  \A k \in 1..Len(ts) :
              /\ ts[k].principal <= BalanceBefore(cfg, ts, k)
              /\ ts[k].mortgage_payment = ts[k].interest + ts[k].principal

\* C25 (as claimed): every run() replaces df and results together, so after
\* any sequence of run() and kpis() calls the instance holds a df exactly when
\* it holds results, the results are the summary of that df, and both are
\* those of the instance's config fields; kpis() runs only when no summary is
\* held, so a held summary is never replaced by another.
C25_SummaryCachedWithFrame ==
    (calls > 0 /\ pc \in {"done", "raised"}) =>
        /\ (df # None) <=> (results # None)
        /\ results # None =>
              \E out \in {RunOutcome(cfg)} : df = out.df /\ results = out.results
        /\ first # None => results = first[1].results

RECURSIVE SumPrincipal(_, _)
SumPrincipal(ts, k) == IF k = 0 THEN 0 ELSE SumPrincipal(ts, k - 1) + ts[k].principal

ReferentialIntegrity ==
    /\ \A s \in scenarios : s.property_id \in Ids(properties)
    /\ \A r \in runs : r.scenario_id \in Ids(scenarios)

\* the scenarios of property pid in a table
ScenariosOfProperty(table, pid) == { s \in table : s.property_id = pid }

\* the runs of the scenarios scens in a table
RunsOfScenarios(table, scens) == { r \in table : r.scenario_id \in Ids(scens) }

\* C27: after any sequence of sim_db operations every scenario references an
\* existing property and every run an existing scenario; after
\* delete_property(p) the property, its scenarios and the runs of those
\* scenarios are gone, after delete_scenario(s) the scenario and its runs.
C27_ReferentialIntegrity ==
    /\ ReferentialIntegrity
    /\ db_last.op = "delete_property" =>
          LET p == db_last.arg.id[1]
              gone == ScenariosOfProperty(db_last.before.scenarios, p)
          IN  /\ p \notin Ids(properties)
              /\ scenarios \cap gone = {}
              /\ runs \cap RunsOfScenarios(db_last.before.runs, gone) = {}
    /\ db_last.op = "delete_scenario" =>
          LET gone == { s \in db_last.before.scenarios : s.id = db_last.arg.id[1] }
          IN  /\ scenarios \cap gone = {}
              /\ runs \cap RunsOfScenarios(db_last.before.runs, gone) = {}

\* C27 witness: delete_property has just removed a property that had a
\* scenario with a run, while another property keeps its scenario and run
C27_Witness ==
    /\ db_last.op = "delete_property"
    /\ \E s \in db_last.before.scenarios :
          /\ s.property_id = db_last.arg.id[1]
          /\ \E r \in db_last.before.runs : r.scenario_id = s.id
    /\ scenarios # {} /\ runs # {}

\* C28 (as claimed): after upsert_property(prop) returned id i the store holds
\* a property i with prop's fields; when prop had no id the row is new and
\* nothing else changed, when prop carried an id it is that id, no row was
\* created and no other property changed.  An id of 0 counts as no id.
C28_UpsertReturnsStoredId ==
    db_last.op = "upsert_property" =>
        LET prop == db_last.arg
            before == db_last.before.properties
        IN  /\ db_last.ret # None
            /\ \E p \in properties : p.id = db_last.ret[1] /\ p.address = prop.text
            /\ IF ~HasId(prop)
               THEN /\ db_last.ret[1] \notin Ids(before)
                    /\ properties = before \cup {[id |-> db_last.ret[1], address |-> prop.text]}
               ELSE /\ db_last.ret = prop.id
                    /\ Ids(properties) = Ids(before)
                    /\ \A p \in before : p.id # prop.id[1] => p \in properties

=============================================================================
